---- MODULE Spec2Model ----
(***************************************************************************)
(* Payment settlement core of dm-shop-payment-foundation.                  *)
(*                                                                         *)
(* The state machines of the model share the database tables:              *)
(*   LedgerSpec  - DMShopSupabaseClient.processOrderPayment and the        *)
(*                 persistence calls it makes, one REST request per step,  *)
(*                 for several concurrent invocations;                     *)
(*   WebhookSpec - DMShopWebhookHandler.processPaystackWebhook: signature  *)
(*                 check, parse, routing, order update, automation fan-out *)
(*                 with retries (WebhookLiveSpec: with fair scheduling,    *)
(*                 FanoutSpec: with endpoints that answer by a script);    *)
(*   CalculatorSpec - calculatePayment, calculateOrderPayment and          *)
(*                 createOrderCheckout applied to their arguments;         *)
(*   CheckoutSpec - processOrderPayment called with a calculated order;    *)
(*   SubscriptionSpec - WebhookSpec with subscriptions added and removed   *)
(*                 while requests are handled;                             *)
(*   BroadcastSpec - DMShopN8nManager.registerWorkflow and broadcastEvent. *)
(* Every await in the source is a point where another invocation may run,  *)
(* so every awaited REST request is one action.                            *)
(***************************************************************************)
EXTENDS Integers, Sequences, FiniteSets, TLC

NULL == "null"

(***************************************************************************)
(* Bounds of the model.                                                    *)
(***************************************************************************)
\* processOrderPayment invocations (numbered in order of arrival)
MaxCalls == 2

Calls == 1..MaxCalls

\* webhook requests received from the provider, one after another
MaxRequests == 2

StoreIds == {"s1", "s2"}
OrderIds == {"o1", "o2"}

(***************************************************************************)
(* Inputs of processOrderPayment: DMShopOrderPayment values (the fields    *)
(* the method reads) and the Paystack events they are paired with.         *)
(***************************************************************************)
OrderPaymentTwoSellers ==
  [orderId |-> "o1", customerId |-> "u1", totalServiceFee |-> 15,
   paymentSplits |-> << [sellerId |-> "seller1", storeId |-> "s1",
                         amount |-> 100, commission |-> 7],
                        [sellerId |-> "seller2", storeId |-> "s2",
                         amount |-> 200, commission |-> 8] >>]

OrderPaymentOneSeller ==
  [orderId |-> "o2", customerId |-> "u2", totalServiceFee |-> 15,
   paymentSplits |-> << [sellerId |-> "seller1", storeId |-> "s1",
                         amount |-> 50, commission |-> 2] >>]

OrderPayments == {OrderPaymentTwoSellers, OrderPaymentOneSeller}

\* PaystackWebhookEvent of a charge: data.id and data.reference
ChargeEvent(ref) ==
  [event |-> "charge.success",
   data |-> [id |-> IF ref = "ref1" THEN 1 ELSE 2, reference |-> ref]]

\* an order is paid under its own payment reference
ReferenceOf(orderId) == IF orderId = "o1" THEN "ref1" ELSE "ref2"

PaymentInputs ==
  { [orderPayment |-> op, paystackEvent |-> ChargeEvent(ReferenceOf(op.orderId))] :
      op \in OrderPayments }

(***************************************************************************)
(* Database rows.                                                          *)
(***************************************************************************)
\* OrderRecord as the payment code reads and writes it
NewOrder ==
  [payment_status |-> "pending", paystack_transaction_id |-> NULL,
   payment_reference |-> NULL, failed_at |-> NULL]

\* new Date().toISOString() while the n-th webhook request is being handled
Timestamp(n) == "t" \o ToString(n)

\* TransactionRecord as inserted through createTransaction
TransactionRow(order, store, type, amount, ref) ==
  [order_id |-> order, store_id |-> store, type |-> type, amount |-> amount,
   status |-> "completed", paystack_reference |-> ref]

\* The ledger before any call of the model: store s2 has earlier business
\* (a sale of 40 and a payout of 30), store s1 has none.
InitialStores ==
  [s \in StoreIds |->
     IF s = "s2" THEN [total_earnings |-> 40, available_balance |-> 10]
                 ELSE [total_earnings |-> 0, available_balance |-> 0]]

InitialTransactions ==
  (TransactionRow("o0", "s2", "sale", 40, "ref0") :> 1) @@
  (TransactionRow("o0", "s2", "payout", 30, "payout0") :> 1)

\* number of copies of a row in a table (a table is a bag of rows)
Copies(table, row) == IF row \in DOMAIN table THEN table[row] ELSE 0

\* INSERT of one row
Insert(table, row) ==
  IF row \in DOMAIN table THEN [table EXCEPT ![row] = @ + 1]
                          ELSE table @@ (row :> 1)

\* parseFloat(x || '0') of updateStoreEarnings: PostgREST returns the numeric
\* columns as numbers, 0 becomes '0' and parses back to 0
parseFloatOrZero(x) == IF x = 0 THEN 0 ELSE x

\* a row after a PATCH: ...updates over the existing row
OrderUpdate(row, updates) ==
  [f \in DOMAIN row |-> IF f \in DOMAIN updates THEN updates[f] ELSE row[f]]

\* PATCH on the orders table: the rows the filter selects take the updates
PatchOrders(table, selected, updates) ==
  [o \in DOMAIN table |->
     IF o \in selected THEN OrderUpdate(table[o], updates) ELSE table[o]]

(***************************************************************************)
(* Inbound webhooks: raw bodies, their signatures and what they parse to.  *)
(***************************************************************************)
WebhookSecret == "whsec_live"
ForgedSecret == "whsec_guess"

\* the digest createHmac('sha512', key).update(payload).digest('hex') yields,
\* taken as collision free: equal digests come from equal key and payload
Hmac(key, payload) == <<key, payload>>

\* PaystackClient.validateWebhook
validateWebhook(payload, signature) ==
  Hmac(WebhookSecret, payload) = signature

\* the bodies the provider (or somebody else) posts
ValidBodies ==
  { "charge.success ref1 split", "charge.success ref2", "charge.failed ref1",
    "transfer.success", "transfer.failed", "subscription.create" }
MalformedBodies == { "{not json" }
RawBodies == ValidBodies \cup MalformedBodies

\* JSON.parse succeeds on the payload
IsJson(payload) == payload \in ValidBodies

\* JSON.parse(payload), for a payload it accepts: the PaystackWebhookEvent
JsonParse(payload) ==
  CASE payload = "charge.success ref1 split" ->
         [event |-> "charge.success",
          data |-> [id |-> 1, reference |-> "ref1", amount |-> 41500,
                    metadata |-> [order_id |-> "o1", split_code |-> "SPL_1"]]]
    [] payload = "charge.success ref2" ->
         [event |-> "charge.success",
          data |-> [id |-> 2, reference |-> "ref2", amount |-> 6700,
                    metadata |-> [order_id |-> "o2", split_code |-> ""]]]
    [] payload = "charge.failed ref1" ->
         [event |-> "charge.failed",
          data |-> [id |-> 3, reference |-> "ref1", amount |-> 41500,
                    metadata |-> [order_id |-> "o1", split_code |-> ""]]]
    [] payload = "transfer.success" ->
         [event |-> "transfer.success",
          data |-> [id |-> 4, reference |-> "payout1", amount |-> 10000,
                    metadata |-> [order_id |-> "", split_code |-> ""]]]
    [] payload = "transfer.failed" ->
         [event |-> "transfer.failed",
          data |-> [id |-> 5, reference |-> "payout2", amount |-> 10000,
                    metadata |-> [order_id |-> "", split_code |-> ""]]]
    [] OTHER ->
         [event |-> "subscription.create",
          data |-> [id |-> 6, reference |-> "sub1", amount |-> 0,
                    metadata |-> [order_id |-> "", split_code |-> ""]]]

\* the body an attacker saw signed before changing it
SignedBody == "charge.failed ref1"

\* the signatures a request with this payload may carry: the provider's, the
\* one of the body as signed before it was changed, one made with a guessed key
SignaturesFor(payload) ==
  { Hmac(WebhookSecret, payload), Hmac(WebhookSecret, SignedBody),
    Hmac(ForgedSecret, payload) }

\* HTTP status of a response; 0 stands for fetch rejecting (transport error)
ResponseStatuses == {0, 200, 204, 404, 500}

ResponseOk_AnyAnswer(status) == status # 0

\* response.ok
ResponseOk(status) == status >= 200 /\ status <= 299

\* the switch of processPaystackWebhook: the handler an event type selects
Route_DefaultIsPayment(eventType) ==
  CASE eventType = "charge.failed" -> "handleFailedPayment"
    [] eventType = "transfer.success" -> "handleSuccessfulTransfer"
    [] eventType = "transfer.failed" -> "handleFailedTransfer"
    [] OTHER -> "handleSuccessfulPayment"

Route(eventType) ==
  CASE eventType = "charge.success" -> "handleSuccessfulPayment"
    [] eventType = "charge.failed" -> "handleFailedPayment"
    [] eventType = "transfer.success" -> "handleSuccessfulTransfer"
    [] eventType = "transfer.failed" -> "handleFailedTransfer"
    [] OTHER -> "unhandled"

\* processPaystackWebhook up to the handler call: what the request does next
Intake_NoSignatureCheck(payload, signature) ==
  IF ~IsJson(payload) THEN "threw"
  ELSE Route(JsonParse(payload).event)

Intake_MalformedAsBadSignature(payload, signature) ==
  IF ~validateWebhook(payload, signature) \/ ~IsJson(payload)
  THEN "invalid signature"
  ELSE Route(JsonParse(payload).event)

Intake(payload, signature) ==
  IF ~validateWebhook(payload, signature) THEN "invalid signature"
  ELSE IF ~IsJson(payload) THEN "threw"
  ELSE Route(JsonParse(payload).event)

AutomationEvent_PayoutsMerged(handler) ==
  CASE handler = "handleSuccessfulPayment" -> "payment.success"
    [] handler = "handleFailedPayment" -> "payment.failed"
    [] OTHER -> "payout.success"

\* the canonical automation event each handler triggers
AutomationEvent(handler) ==
  CASE handler = "handleSuccessfulPayment" -> "payment.success"
    [] handler = "handleFailedPayment" -> "payment.failed"
    [] handler = "handleSuccessfulTransfer" -> "payout.success"
    [] OTHER -> "payout.failed"

\* the payment_status each payment handler writes
StatusWritten(handler) ==
  IF handler = "handleSuccessfulPayment" THEN "paid" ELSE "failed"

OrderStatusUpdates_AlwaysPaid(handler, event, now) ==
  [payment_status |-> "paid",
   paystack_transaction_id |-> ToString(event.data.id)]

\* the body of the PATCH updateOrderStatus sends (the columns of the model)
OrderStatusUpdates(handler, event, now) ==
  IF handler = "handleSuccessfulPayment"
  THEN [payment_status |-> "paid",
        paystack_transaction_id |-> ToString(event.data.id)]
  ELSE [payment_status |-> "failed", failed_at |-> now]

(***************************************************************************)
(* Results of processPaystackWebhook.                                      *)
(***************************************************************************)
InvalidSignatureResult ==
  [success |-> FALSE, message |-> "Invalid webhook signature"]

ThrownResult_ReportedAsSuccess(errorMessage) ==
  [success |-> TRUE, message |-> "Webhook processing failed: " \o errorMessage]

\* the result of the catch block of processPaystackWebhook
ThrownResult(errorMessage) ==
  [success |-> FALSE, message |-> "Webhook processing failed: " \o errorMessage]

UnhandledResult(eventType) ==
  [success |-> TRUE,
   message |-> "Event " \o eventType \o " received but not processed"]

HandlerMessage(handler) ==
  CASE handler = "handleSuccessfulPayment" -> "Payment processed successfully"
    [] handler = "handleFailedPayment" -> "Failed payment processed"
    [] handler = "handleSuccessfulTransfer" -> "Transfer processed successfully"
    [] OTHER -> "Failed transfer processed"

HandlerResult_NeverTriggered(h, automationResult) ==
  [success |-> TRUE, message |-> HandlerMessage(h),
   automationTriggered |-> FALSE]

HandlerResult_SuccessIsDelivery(handler, automationResult) ==
  [success |-> automationResult, message |-> HandlerMessage(handler),
   automationTriggered |-> automationResult]

\* the object each handler returns after its awaits
HandlerResult(handler, automationResult) ==
  [success |-> TRUE, message |-> HandlerMessage(handler),
   automationTriggered |-> automationResult]

(***************************************************************************)
(* Automation subscriptions and deliveries.                                *)
(***************************************************************************)
DefaultRetryAttempts == 3

\* the subscriptions the handler is constructed with: retryAttempts is an
\* optional field, the second subscription leaves it out and the third
\* configures no attempt at all
InitialWebhooks ==
  << [url |-> "https://hooks.zapier.example/a",
      events |-> {"payment.success", "payout.success"},
      retryAttempts |-> 2],
     [url |-> "https://n8n.example/b",
      events |-> {"payment.success", "order.created"}],
     [url |-> "https://buildship.example/c",
      events |-> {"payout.failed"},
      retryAttempts |-> 0] >>

\* const maxRetries = webhook.retryAttempts || 3: undefined and 0 are falsy
MaxRetriesOf(webhook) ==
  IF "retryAttempts" \in DOMAIN webhook /\ webhook.retryAttempts # 0
  THEN webhook.retryAttempts
  ELSE DefaultRetryAttempts

\* this.automationWebhooks.filter(webhook => webhook.events.includes(eventType))
RECURSIVE RelevantWebhooks(_, _)
RelevantWebhooks(webhooks, eventType) ==
  IF webhooks = <<>> THEN <<>>
  ELSE IF eventType \in Head(webhooks).events
       THEN <<Head(webhooks)>> \o RelevantWebhooks(Tail(webhooks), eventType)
       ELSE RelevantWebhooks(Tail(webhooks), eventType)

\* no POST of the delivery has been answered yet
NoStatus == -1

\* sendAutomationWebhook at its first loop test: it posts, or (maxRetries not
\* positive) gives up at once
StartDelivery(webhook) ==
  [webhook |-> webhook, url |-> webhook.url,
   maxRetries |-> MaxRetriesOf(webhook), attempt |-> 0, delay |-> 0,
   posts |-> IF 0 < MaxRetriesOf(webhook) THEN 1 ELSE 0,
   lastStatus |-> NoStatus,
   state |-> IF 0 < MaxRetriesOf(webhook) THEN "posting" ELSE "exhausted"]

\* relevantWebhooks.map(webhook => this.sendAutomationWebhook(...))
StartDeliveries(webhooks, eventType) ==
  LET relevant == RelevantWebhooks(webhooks, eventType)
  IN [i \in 1..Len(relevant) |-> StartDelivery(relevant[i])]

AfterResponse_RethrowsWhenExhausted(d, status) ==
  IF ResponseOk(status)
  THEN [d EXCEPT !.state = "delivered", !.lastStatus = status]
  ELSE LET attempt == d.attempt + 1
       IN IF attempt < d.maxRetries
          THEN [d EXCEPT !.attempt = attempt, !.state = "backoff",
                         !.delay = (2 ^ attempt) * 1000,
                         !.lastStatus = status]
          ELSE [d EXCEPT !.attempt = attempt, !.state = "rejected",
                         !.lastStatus = status]

\* a delivery after the endpoint's answer to its POST: posts counts the
\* fetch calls made, lastStatus is the answer to the latest one (history)
AfterResponse(d, status) ==
  IF ResponseOk(status)
  THEN [d EXCEPT !.state = "delivered", !.lastStatus = status]
  ELSE LET attempt == d.attempt + 1
       IN IF attempt < d.maxRetries
          THEN [d EXCEPT !.attempt = attempt, !.state = "backoff",
                         !.delay = (2 ^ attempt) * 1000,
                         !.lastStatus = status]
          ELSE [d EXCEPT !.attempt = attempt, !.state = "exhausted",
                         !.lastStatus = status]

Settled_Started(d) == d.posts >= 1

Settled_OnlyDelivered(d) == d.state = "delivered"

\* the promise of the delivery has settled
Settled(d) == d.state \in {"delivered", "exhausted"}

(***************************************************************************)
(* The payment calculator (utils/payment-calculator.ts).  Amounts are      *)
(* exact decimal quantities counted in units of 1/100000 rand, which keeps *)
(* the 7%, 4% and 2.9% of every whole-rand price an integer; the binary    *)
(* rounding of the number type is not part of the model.                   *)
(***************************************************************************)
\* one rand, in the unit of the calculator's amounts
Rand == 100000

\* the largest product price, in rand, calculatePayment is applied to
MaxPrice == 400

\* the largest number of lines of an order
MaxLines == 2

Tiers == {"free", "premium"}

\* const serviceFee = 15
ServiceFee == 15 * Rand

CommissionPercent_TiersSwapped(sellerTier) ==
  IF sellerTier = "free" THEN 4 ELSE 7

\* the rate of the branch calculatePayment takes: 0.07 for free, else 0.04
CommissionPercent(sellerTier) ==
  IF sellerTier = "free" THEN 7 ELSE 4

CustomerTotal_WithoutServiceFee(productPrice, commission, serviceFee) ==
  productPrice + commission

\* const customerTotal = productPrice + commission + serviceFee
CustomerTotal(productPrice, commission, serviceFee) ==
  productPrice + commission + serviceFee

\* calculatePayment(productPrice, sellerTier): DMShopPaymentCalculation
calculatePayment(productPrice, sellerTier) ==
  LET serviceFee == ServiceFee
      commission == (productPrice * CommissionPercent(sellerTier)) \div 100
      customerTotal == CustomerTotal(productPrice, commission, serviceFee)
      paystackFees == (customerTotal * 29) \div 1000 + 2 * Rand
      netSellerAmount == productPrice - paystackFees
  IN [productPrice |-> productPrice, sellerTier |-> sellerTier,
      commission |-> commission, serviceFee |-> serviceFee,
      customerTotal |-> customerTotal, sellerReceives |-> productPrice,
      paystackFees |-> paystackFees, netSellerAmount |-> netSellerAmount]

\* paymentSplits.find(split => split.sellerId === item.sellerId): the index
\* of the first such split, 0 when there is none
FindSplit(paymentSplits, sellerId) ==
  IF \E i \in DOMAIN paymentSplits : paymentSplits[i].sellerId = sellerId
  THEN CHOOSE i \in DOMAIN paymentSplits :
         /\ paymentSplits[i].sellerId = sellerId
         /\ \A j \in 1..(i - 1) : paymentSplits[j].sellerId # sellerId
  ELSE 0

SplitAmount_NetOfFees(calculation) == calculation.netSellerAmount

\* the amount of a line that goes into its seller's split
SplitAmount(calculation) == calculation.sellerReceives

GroupBySeller_SplitPerLine(paymentSplits, item, calculation) ==
  Append(paymentSplits,
         [sellerId |-> item.sellerId, storeId |-> item.storeId,
          subaccountCode |-> "ACCT_" \o item.sellerId,
          amount |-> SplitAmount(calculation),
          commission |-> calculation.commission])

\* the if (existingSplit) ... else paymentSplits.push(...) of the map callback
GroupBySeller(paymentSplits, item, calculation) ==
  LET i == FindSplit(paymentSplits, item.sellerId)
  IN IF i # 0
     THEN [paymentSplits EXCEPT
             ![i].amount = @ + SplitAmount(calculation),
             ![i].commission = @ + calculation.commission]
     ELSE Append(paymentSplits,
                 [sellerId |-> item.sellerId, storeId |-> item.storeId,
                  subaccountCode |-> "ACCT_" \o item.sellerId,
                  amount |-> SplitAmount(calculation),
                  commission |-> calculation.commission])

\* the accumulators of calculateOrderPayment before the first line
NoLinesYet ==
  [subtotal |-> 0, totalCommission |-> 0, totalServiceFee |-> 0,
   paymentSplits |-> <<>>, processedItems |-> <<>>]

\* one run of the callback of items.map on the accumulators
ProcessItem(acc, item) ==
  LET itemTotal == item.price * item.quantity
      calculation == calculatePayment(itemTotal, item.sellerTier)
  IN [subtotal |-> acc.subtotal + itemTotal,
      totalCommission |-> acc.totalCommission + calculation.commission,
      totalServiceFee |-> acc.totalServiceFee + calculation.serviceFee,
      paymentSplits |-> GroupBySeller(acc.paymentSplits, item, calculation),
      processedItems |->
        Append(acc.processedItems,
               [productId |-> item.productId, variantId |-> item.variantId,
                storeId |-> item.storeId, sellerId |-> item.sellerId,
                sellerTier |-> item.sellerTier, price |-> item.price,
                quantity |-> item.quantity,
                commission |-> calculation.commission])]

RECURSIVE ProcessItems(_, _)
\* items.map(...), line after line
ProcessItems(acc, items) ==
  IF items = <<>> THEN acc
  ELSE ProcessItems(ProcessItem(acc, Head(items)), Tail(items))

GrandTotal_WithoutShipping(subtotal, totalCommission, totalServiceFee, shippingFee) ==
  subtotal + totalCommission + totalServiceFee

\* const grandTotal = subtotal + totalCommission + totalServiceFee + shippingFee
GrandTotal(subtotal, totalCommission, totalServiceFee, shippingFee) ==
  subtotal + totalCommission + totalServiceFee + shippingFee

\* calculateOrderPayment(items, shippingFee): DMShopOrderPayment
calculateOrderPayment(items, shippingFee) ==
  LET acc == ProcessItems(NoLinesYet, items)
  IN [orderId |-> "", customerId |-> "", items |-> acc.processedItems,
      totals |-> [subtotal |-> acc.subtotal,
                  totalCommission |-> acc.totalCommission,
                  totalServiceFee |-> acc.totalServiceFee,
                  shippingFee |-> shippingFee,
                  grandTotal |-> GrandTotal(acc.subtotal, acc.totalCommission,
                                            acc.totalServiceFee, shippingFee)],
      paymentSplits |-> acc.paymentSplits]

\* shippingFee: number = 85
DefaultShippingFee == 85 * Rand

ItemsAfterCall_CommissionWritten(items) ==
  [i \in DOMAIN items |-> items[i] @@ [commission |-> 0]]

\* the caller's lines once calculateOrderPayment has returned: the callback
\* returns { ...item, commission }, a new object, and writes to no line
ItemsAfterCall(items) == items

\* Math.round(n / d) for amounts that are not negative: halves go up
MathRound(n, d) == (2 * n + d) \div (2 * d)

\* zarToKobo(zarAmount) = Math.round(zarAmount * 100); a cent is Rand / 100
zarToKobo(zarAmount) == MathRound(zarAmount, Rand \div 100)

createOrderCheckout_WithoutServiceFee(params, now) ==
  LET commission == IF params.sellerTier = "free" THEN 7 ELSE 4
      commissionAmount == (params.totalAmount * commission) \div 100
      customerTotal == params.totalAmount + commissionAmount
  IN [email |-> params.customerEmail,
      amount |-> ToString(MathRound(customerTotal, Rand \div 100)),
      currency |-> "ZAR",
      reference |-> <<"DMSHOP", params.orderId, now>>]

\* DMShopPaystackMCP.createOrderCheckout: the request it hands to
\* client.initializeTransaction; now is the value of Date.now()
createOrderCheckout(params, now) ==
  LET commission == IF params.sellerTier = "free" THEN 7 ELSE 4
      serviceFee == 15 * Rand
      commissionAmount == (params.totalAmount * commission) \div 100
      customerTotal == params.totalAmount + commissionAmount + serviceFee
      amountInKobo == ToString(MathRound(customerTotal, Rand \div 100))
  IN [email |-> params.customerEmail, amount |-> amountInKobo,
      currency |-> "ZAR",
      reference |-> <<"DMSHOP", params.orderId, now>>]

\* order totals handed to createOrderCheckout: whole rands and amounts with
\* cents, among them amounts whose commission has a fraction of a cent
CheckoutAmounts ==
  { c * (Rand \div 100) : c \in {0, 1, 50, 150, 9999, 10000, 12345, 40000} }

\* the values Date.now() takes
Clock == {1, 2}

(***************************************************************************)
(* Arguments the calculator is applied to.                                 *)
(***************************************************************************)
ProductPrices == { p * Rand : p \in 0..MaxPrice }

SellerIds == {"seller1", "seller2"}

\* each seller has one store
StoreOfSeller(sellerId) == IF sellerId = "seller1" THEN "s1" ELSE "s2"

LinePrices == {50 * Rand, 200 * Rand}
Quantities == {1, 2}

\* the order lines: an element of the items array
OrderLines ==
  { [productId |-> "prod_1", variantId |-> "var_1",
     storeId |-> StoreOfSeller(seller), sellerId |-> seller,
     sellerTier |-> tier, price |-> price, quantity |-> quantity] :
      seller \in SellerIds, tier \in Tiers, price \in LinePrices,
      quantity \in Quantities }

\* the order of the scenario: seller1 (free) 2 units at R50, seller2
\* (premium) 1 unit at R200
ScenarioItems ==
  << [productId |-> "prod_1", variantId |-> "var_1", storeId |-> "s1",
      sellerId |-> "seller1", sellerTier |-> "free",
      price |-> 50 * Rand, quantity |-> 2],
     [productId |-> "prod_1", variantId |-> "var_1", storeId |-> "s2",
      sellerId |-> "seller2", sellerTier |-> "premium",
      price |-> 200 * Rand, quantity |-> 1] >>

\* two lines of one seller, listed under different tiers
OneSellerTwoLines ==
  << [productId |-> "prod_1", variantId |-> "var_1", storeId |-> "s1",
      sellerId |-> "seller1", sellerTier |-> "free",
      price |-> 50 * Rand, quantity |-> 1],
     [productId |-> "prod_1", variantId |-> "var_1", storeId |-> "s1",
      sellerId |-> "seller1", sellerTier |-> "premium",
      price |-> 200 * Rand, quantity |-> 2] >>

ItemLists == UNION { [1..n -> OrderLines] : n \in 0..MaxLines }

ShippingFees == {0, DefaultShippingFee}

\* the calls of the calculator, before they are made
CalculatorCalls ==
  { [call |-> "calculatePayment", returned |-> FALSE,
     productPrice |-> p, sellerTier |-> t] :
      p \in ProductPrices, t \in Tiers }
  \cup
  { [call |-> "calculateOrderPayment", returned |-> FALSE,
     items |-> items, shippingFee |-> fee] :
      items \in ItemLists, fee \in ShippingFees }
  \cup
  { [call |-> "createOrderCheckout", returned |-> FALSE,
     params |-> [customerEmail |-> "customer@example.com", orderId |-> o,
                 totalAmount |-> a, sellerTier |-> t]] :
      o \in OrderIds, a \in CheckoutAmounts, t \in Tiers }

VARIABLES
  orders,        \* table orders: order id -> OrderRecord
  stores,        \* table stores: store id -> [total_earnings, available_balance]
  transactions,  \* table transactions: row -> number of copies inserted
  pc,            \* call -> position in processOrderPayment
  arg,           \* call -> its (orderPayment, paystackEvent), NULL before the call
  idx,           \* call -> index of the split in the for..of loop
  fetched,       \* call -> store row read by the GET of updateStoreEarnings
  overlapped,    \* call -> TRUE once it ran while another call was in progress
  automationWebhooks, \* DMShopWebhookHandler.automationWebhooks
  wpc,           \* position of the current request in processPaystackWebhook
  req,           \* its payload and signature
  handler,       \* the handler the switch selected for it
  deliveries,    \* the sendAutomationWebhook calls of its dispatch
  result,        \* the WebhookProcessingResult it returned
  steps,         \* the ledger steps it has completed (history)
  received,      \* number of requests received so far
  ordersBefore,  \* the orders table when the current request arrived (history)
  calc,          \* the call of the payment calculator: arguments, then result
  n8n            \* DMShopN8nManager: its workflows and the broadcast under way

ledgerVars == <<orders, stores, transactions>>
callVars == <<pc, arg, idx, fetched, overlapped>>
requestVars == <<wpc, req, handler, deliveries, result, steps, received, ordersBefore>>
webhookVars == <<automationWebhooks, requestVars>>
vars == <<ledgerVars, callVars, webhookVars, calc, n8n>>

Running(c) == pc[c] \notin {"idle", "done", "failed"}

\* the tables, the calls and the request slot before anything has run
InitLedgerAndRequests ==
  /\ orders = [o \in OrderIds |-> NewOrder]
  /\ stores = InitialStores
  /\ transactions = InitialTransactions
  /\ pc = [c \in Calls |-> "idle"]
  /\ arg = [c \in Calls |-> NULL]
  /\ idx = [c \in Calls |-> 0]
  /\ fetched = [c \in Calls |-> NULL]
  /\ overlapped = [c \in Calls |-> FALSE]
  /\ wpc = "idle"
  /\ req = [payload |-> "", signature |-> <<>>]
  /\ handler = ""
  /\ deliveries = <<>>
  /\ result = [success |-> FALSE, message |-> ""]
  /\ steps = {}
  /\ received = 0
  /\ ordersBefore = [o \in OrderIds |-> NewOrder]

\* no call of the payment calculator is under way
NoCalculation == [call |-> "none", returned |-> FALSE]

\* the state after construction, but for the subscriptions
\* a DMShopN8nManager after construction: private workflows = new Map()
NewManager ==
  [phase |-> "idle", event |-> "", workflows |-> <<>>, calls |-> <<>>,
   answered |-> <<>>, results |-> <<>>]

InitExceptWebhooks ==
  /\ InitLedgerAndRequests
  /\ calc = NoCalculation
  /\ n8n = NewManager

Init ==
  /\ InitExceptWebhooks
  /\ automationWebhooks = InitialWebhooks

(***************************************************************************)
(* DMShopSupabaseClient.processOrderPayment, one action per awaited REST   *)
(* request.  A request either succeeds or is answered with an error        *)
(* (response.ok false, or fetch rejecting): the method then rethrows and   *)
(* the call ends in "failed" without undoing anything.                     *)
(***************************************************************************)
Splits(c) == arg[c].orderPayment.paymentSplits
Split(c) == Splits(c)[idx[c]]
Ref(c) == arg[c].paystackEvent.data.reference
OrderOf(c) == arg[c].orderPayment.orderId

\* the caller invokes processOrderPayment(orderPayment, paystackEvent)
CallWith(c, inputs) ==
  /\ pc[c] = "idle"
  /\ \A d \in Calls : d < c => pc[d] # "idle"
  /\ \E in \in inputs : arg' = [arg EXCEPT ![c] = in]
  /\ pc' = [pc EXCEPT ![c] = "updateOrder"]
  /\ overlapped' = [d \in Calls |->
                      IF \E e \in Calls \ {c} : Running(e)
                      THEN (d = c \/ Running(d) \/ overlapped[d])
                      ELSE overlapped[d]]
  /\ UNCHANGED <<ledgerVars, idx, fetched, webhookVars, calc, n8n>>

\* the caller invokes processOrderPayment with one of the fixed inputs
CallProcessOrderPayment(c) == CallWith(c, PaymentInputs)

\* a REST request of call c is answered with an error: the catch block rethrows
RequestFails(c) ==
  /\ Running(c)
  /\ pc' = [pc EXCEPT ![c] = "failed"]
  /\ UNCHANGED <<ledgerVars, arg, idx, fetched, overlapped, webhookVars, calc, n8n>>

\* the position after the for..of loop header is evaluated with index i
LoopOrFee(c, i) == IF i <= Len(Splits(c)) THEN "getStore" ELSE "serviceFee"

\* await this.updateOrder(orderId, {payment_status: 'paid', ...})
UpdateOrder(c) ==
  /\ pc[c] = "updateOrder"
  /\ orders' = PatchOrders(orders, {OrderOf(c)},
                          [payment_status |-> "paid",
                           paystack_transaction_id |->
                             ToString(arg[c].paystackEvent.data.id),
                           payment_reference |-> Ref(c)])
  /\ idx' = [idx EXCEPT ![c] = 1]
  /\ pc' = [pc EXCEPT ![c] = LoopOrFee(c, 1)]
  /\ UNCHANGED <<stores, transactions, arg, fetched, overlapped, webhookVars, calc, n8n>>

\* updateStoreEarnings, first request: GET the store row
GetStore(c) ==
  /\ pc[c] = "getStore"
  /\ fetched' = [fetched EXCEPT ![c] = stores[Split(c).storeId]]
  /\ pc' = [pc EXCEPT ![c] = "patchStore"]
  /\ UNCHANGED <<ledgerVars, arg, idx, overlapped, webhookVars, calc, n8n>>

NewBalances_EarningsOnly(store, earningsAmount, transactionType) ==
  [total_earnings |-> parseFloatOrZero(store.total_earnings) + earningsAmount,
   available_balance |-> parseFloatOrZero(store.available_balance)]

\* the balances updateStoreEarnings computes from the row it read
NewBalances(store, earningsAmount, transactionType) ==
  [total_earnings |->
     IF transactionType = "add"
     THEN parseFloatOrZero(store.total_earnings) + earningsAmount
     ELSE parseFloatOrZero(store.total_earnings) - earningsAmount,
   available_balance |->
     IF transactionType = "add"
     THEN parseFloatOrZero(store.available_balance) + earningsAmount
     ELSE parseFloatOrZero(store.available_balance) - earningsAmount]

\* updateStoreEarnings, second request: PATCH the computed balances
PatchStore(c) ==
  /\ pc[c] = "patchStore"
  /\ stores' = [stores EXCEPT ![Split(c).storeId] =
                  NewBalances(fetched[c], Split(c).amount, "add")]
  /\ fetched' = [fetched EXCEPT ![c] = NULL]
  /\ pc' = [pc EXCEPT ![c] = "sale"]
  /\ UNCHANGED <<orders, transactions, arg, idx, overlapped, webhookVars, calc, n8n>>

\* createTransaction({type: 'sale', amount: split.amount, ...})
CreateSaleTransaction(c) ==
  /\ pc[c] = "sale"
  /\ transactions' = Insert(transactions,
        TransactionRow(OrderOf(c), Split(c).storeId, "sale", Split(c).amount, Ref(c)))
  /\ pc' = [pc EXCEPT ![c] = "commission"]
  /\ UNCHANGED <<orders, stores, arg, idx, fetched, overlapped, webhookVars, calc, n8n>>

\* createTransaction({type: 'commission', amount: split.commission, ...})
CreateCommissionTransaction(c) ==
  /\ pc[c] = "commission"
  /\ transactions' = Insert(transactions,
        TransactionRow(OrderOf(c), Split(c).storeId, "commission",
                       Split(c).commission, Ref(c)))
  /\ idx' = [idx EXCEPT ![c] = @ + 1]
  /\ pc' = [pc EXCEPT ![c] = LoopOrFee(c, idx[c] + 1)]
  /\ UNCHANGED <<orders, stores, arg, fetched, overlapped, webhookVars, calc, n8n>>

\* createTransaction({store_id: null, type: 'service_fee', ...})
CreateServiceFeeTransaction(c) ==
  /\ pc[c] = "serviceFee"
  /\ transactions' = Insert(transactions,
        TransactionRow(OrderOf(c), NULL, "service_fee",
                       arg[c].orderPayment.totalServiceFee, Ref(c)))
  /\ pc' = [pc EXCEPT ![c] = "done"]
  /\ UNCHANGED <<orders, stores, arg, idx, fetched, overlapped, webhookVars, calc, n8n>>

LedgerNext ==
  \E c \in Calls :
    \/ CallProcessOrderPayment(c)
    \/ UpdateOrder(c)
    \/ GetStore(c)
    \/ PatchStore(c)
    \/ CreateSaleTransaction(c)
    \/ CreateCommissionTransaction(c)
    \/ CreateServiceFeeTransaction(c)
    \/ RequestFails(c)

LedgerSpec == Init /\ [][LedgerNext]_vars

(***************************************************************************)
(* DMShopWebhookHandler.processPaystackWebhook.  The code between two      *)
(* awaits runs without interruption, so an action is one such stretch:     *)
(* receiving the request up to the first request it sends, a response      *)
(* coming back up to the next request, a backoff timer firing.             *)
(* The provider's deliveries are handled one after another: the next one   *)
(* arrives after the previous one was answered.                            *)
(***************************************************************************)
EventOf == JsonParse(req.payload)

\* the request returns its result to the caller
Return(res) ==
  /\ result' = res
  /\ wpc' = "returned"

\* what a handler does once triggerAutomation has returned automationResult:
\* handleSuccessfulPayment awaits processPaymentSplits when the event has a
\* split code, every other path returns
AfterAutomation(h, event, automationResult) ==
  IF h = "handleSuccessfulPayment" /\ event.data.metadata.split_code # ""
  THEN /\ wpc' = "processPaymentSplits"
       /\ UNCHANGED result
  ELSE Return(HandlerResult(h, automationResult))

\* triggerAutomation up to its await: no relevant subscription -> false at
\* once; otherwise every delivery is started, then Promise.allSettled awaited
TriggerAutomation(h, event) ==
  LET started == StartDeliveries(automationWebhooks, AutomationEvent(h))
  IN /\ deliveries' = started
     /\ IF started = <<>>
        THEN AfterAutomation(h, event, FALSE)
        ELSE /\ wpc' = "dispatching"
             /\ UNCHANGED result

\* the provider (or anybody) posts payload and signature
ReceiveWebhook ==
  /\ wpc \in {"idle", "returned"}
  /\ received < MaxRequests
  /\ received' = received + 1
  /\ ordersBefore' = orders
  /\ steps' = {}
  /\ \E payload \in RawBodies :
     \E signature \in SignaturesFor(payload) :
       LET next == Intake(payload, signature)
           event == JsonParse(payload)
       IN /\ req' = [payload |-> payload, signature |-> signature]
          /\ handler' = next
          /\ CASE next = "invalid signature" ->
                    /\ Return(InvalidSignatureResult)
                    /\ deliveries' = <<>>
               [] next = "threw" ->
                    /\ Return(ThrownResult("Unexpected token"))
                    /\ deliveries' = <<>>
               [] next = "unhandled" ->
                    /\ Return(UnhandledResult(event.event))
                    /\ deliveries' = <<>>
               [] next \in {"handleSuccessfulPayment", "handleFailedPayment"} ->
                    /\ wpc' = "updateOrderStatus"
                    /\ deliveries' = <<>>
                    /\ UNCHANGED result
               [] OTHER -> TriggerAutomation(next, event)
  /\ UNCHANGED <<ledgerVars, callVars, calc, n8n, automationWebhooks>>

\* the PATCH of updateOrderStatus is answered: on success the table is
\* written (the request carries no row filter) and the handler goes on to
\* triggerAutomation; otherwise updateOrderStatus throws, the handler
\* rethrows and processPaystackWebhook returns its catch result
OrderUpdateResponds ==
  /\ wpc = "updateOrderStatus"
  /\ \E status \in ResponseStatuses :
       IF ResponseOk(status)
       THEN /\ orders' = PatchOrders(orders, DOMAIN orders,
                                     OrderStatusUpdates(handler, EventOf,
                                                        Timestamp(received)))
            /\ steps' = steps \cup {"orderUpdated"}
            /\ TriggerAutomation(handler, EventOf)
       ELSE /\ Return(ThrownResult("Failed to update order"))
            /\ UNCHANGED <<orders, steps, deliveries>>
  /\ UNCHANGED <<stores, transactions, callVars, calc, n8n, automationWebhooks, req,
                 handler, received, ordersBefore>>

DeliveryAnswered_FailureEndsAll(i, status) ==
  /\ wpc = "dispatching"
  /\ i \in DOMAIN deliveries
  /\ deliveries[i].state = "posting"
  /\ deliveries' =
       [j \in DOMAIN deliveries |->
          IF j = i THEN AfterResponse(deliveries[j], status)
          ELSE IF ~ResponseOk(status) /\ ~Settled(deliveries[j])
               THEN [deliveries[j] EXCEPT !.state = "exhausted"]
               ELSE deliveries[j]]
  /\ UNCHANGED <<ledgerVars, callVars, calc, n8n, automationWebhooks, wpc, req, handler,
                 result, steps, received, ordersBefore>>

\* the POST of delivery i is answered with status (0: fetch rejects)
DeliveryAnswered(i, status) ==
  /\ wpc = "dispatching"
  /\ i \in DOMAIN deliveries
  /\ deliveries[i].state = "posting"
  /\ deliveries' = [deliveries EXCEPT ![i] = AfterResponse(@, status)]
  /\ UNCHANGED <<ledgerVars, callVars, calc, n8n, automationWebhooks, wpc, req, handler,
                 result, steps, received, ordersBefore>>

\* the endpoint answers the POST of delivery i (or the POST fails)
DeliveryResponds(i) ==
  \E status \in ResponseStatuses : DeliveryAnswered(i, status)

\* the setTimeout of delivery i fires: the loop posts again
BackoffElapses(i) ==
  /\ wpc = "dispatching"
  /\ i \in DOMAIN deliveries
  /\ deliveries[i].state = "backoff"
  /\ deliveries' = [deliveries EXCEPT ![i].state = "posting",
                                      ![i].posts = @ + 1]
  /\ UNCHANGED <<ledgerVars, callVars, calc, n8n, automationWebhooks, wpc, req, handler,
                 result, steps, received, ordersBefore>>

\* Promise.allSettled resolves: triggerAutomation returns true
AllSettled ==
  /\ wpc = "dispatching"
  /\ \A i \in DOMAIN deliveries : Settled(deliveries[i])
  /\ AfterAutomation(handler, EventOf, TRUE)
  /\ UNCHANGED <<ledgerVars, callVars, calc, n8n, automationWebhooks, req, handler,
                 deliveries, steps, received, ordersBefore>>

\* processPaymentSplits: logs, does nothing else; the handler then returns
ProcessPaymentSplits ==
  /\ wpc = "processPaymentSplits"
  /\ steps' = steps \cup {"splitsProcessed"}
  /\ Return(HandlerResult(handler, deliveries # <<>>))
  /\ UNCHANGED <<ledgerVars, callVars, calc, n8n, automationWebhooks, req, handler,
                 deliveries, received, ordersBefore>>

WebhookNext ==
  \/ ReceiveWebhook
  \/ OrderUpdateResponds
  \/ \E i \in 1..Len(automationWebhooks) : DeliveryResponds(i)
  \/ \E i \in 1..Len(automationWebhooks) : BackoffElapses(i)
  \/ AllSettled
  \/ ProcessPaymentSplits

WebhookSpec == Init /\ [][WebhookNext]_vars

\* every network call returns or fails, every timer fires and every
\* continuation of an await is run
WebhookFairness ==
  /\ WF_vars(OrderUpdateResponds)
  /\ \A i \in 1..Len(InitialWebhooks) :
       WF_vars(DeliveryResponds(i)) /\ WF_vars(BackoffElapses(i))
  /\ WF_vars(AllSettled)
  /\ WF_vars(ProcessPaymentSplits)

WebhookLiveSpec == WebhookSpec /\ WebhookFairness

(***************************************************************************)
(* The payment calculator applied to its arguments.                        *)
(***************************************************************************)
CalculatorInit ==
  /\ InitLedgerAndRequests
  /\ automationWebhooks = InitialWebhooks
  /\ calc \in CalculatorCalls
  /\ n8n = NewManager

\* calculatePayment(productPrice, sellerTier) returns
CalculatePayment ==
  /\ calc.call = "calculatePayment"
  /\ ~calc.returned
  /\ calc' = [call |-> calc.call, returned |-> TRUE,
              productPrice |-> calc.productPrice,
              sellerTier |-> calc.sellerTier,
              result |-> calculatePayment(calc.productPrice, calc.sellerTier)]
  /\ UNCHANGED <<ledgerVars, callVars, webhookVars, n8n>>

\* calculateOrderPayment(items, shippingFee) returns
CalculateOrderPayment ==
  /\ calc.call = "calculateOrderPayment"
  /\ ~calc.returned
  /\ calc' = [call |-> calc.call, returned |-> TRUE,
              items |-> ItemsAfterCall(calc.items),
              shippingFee |-> calc.shippingFee,
              result |-> calculateOrderPayment(calc.items, calc.shippingFee)]
  /\ UNCHANGED <<ledgerVars, callVars, webhookVars, n8n>>

\* a second call of calculatePayment with the arguments of the first
CalculatePaymentAgain ==
  /\ calc.call = "calculatePayment"
  /\ calc.returned
  /\ "again" \notin DOMAIN calc
  /\ calc' = calc @@ [again |-> calculatePayment(calc.productPrice,
                                                 calc.sellerTier)]
  /\ UNCHANGED <<ledgerVars, callVars, webhookVars, n8n>>

\* a second call of calculateOrderPayment with the lines the caller still
\* holds after the first
CalculateOrderPaymentAgain ==
  /\ calc.call = "calculateOrderPayment"
  /\ calc.returned
  /\ "again" \notin DOMAIN calc
  /\ calc' = [calc EXCEPT !.items = ItemsAfterCall(calc.items)]
               @@ [again |-> calculateOrderPayment(calc.items,
                                                   calc.shippingFee)]
  /\ UNCHANGED <<ledgerVars, callVars, webhookVars, n8n>>

\* createOrderCheckout(params) computes the charge and initializes the
\* transaction
CreateOrderCheckout ==
  /\ calc.call = "createOrderCheckout"
  /\ ~calc.returned
  /\ \E now \in Clock :
       calc' = [call |-> calc.call, returned |-> TRUE, params |-> calc.params,
                result |-> createOrderCheckout(calc.params, now)]
  /\ UNCHANGED <<ledgerVars, callVars, webhookVars, n8n>>

CalculatorNext ==
  \/ CalculatePayment
  \/ CalculateOrderPayment
  \/ CalculatePaymentAgain
  \/ CalculateOrderPaymentAgain
  \/ CreateOrderCheckout

CalculatorSpec == CalculatorInit /\ [][CalculatorNext]_vars

(***************************************************************************)
(* Checkout: the order the calculator produced is what processOrderPayment *)
(* is called with once the charge has succeeded.                           *)
(***************************************************************************)
CheckoutItemLists == {ScenarioItems, OneSellerTwoLines, SubSeq(ScenarioItems, 2, 2)}

CheckoutCalls ==
  { [call |-> "calculateOrderPayment", returned |-> FALSE,
     items |-> items, shippingFee |-> DefaultShippingFee] :
      items \in CheckoutItemLists }

CheckoutInit ==
  /\ InitLedgerAndRequests
  /\ automationWebhooks = InitialWebhooks
  /\ calc \in CheckoutCalls
  /\ n8n = NewManager

\* the fields of the DMShopOrderPayment processOrderPayment reads, with the
\* ids the caller sets
OrderPaymentOf(calculated, orderId, customerId) ==
  [orderId |-> orderId, customerId |-> customerId,
   totalServiceFee |-> calculated.totals.totalServiceFee,
   paymentSplits |-> calculated.paymentSplits]

CheckoutReference == "ref1"

\* the caller invokes processOrderPayment with the calculated order
CallWithCalculatedOrder(c) ==
  /\ calc.call = "calculateOrderPayment"
  /\ calc.returned
  /\ CallWith(c, { [orderPayment |-> OrderPaymentOf(calc.result, "o1", "u1"),
                    paystackEvent |-> ChargeEvent(CheckoutReference)] })

CheckoutNext ==
  \/ CalculateOrderPayment
  \/ \E c \in Calls :
       \/ CallWithCalculatedOrder(c)
       \/ UpdateOrder(c)
       \/ GetStore(c)
       \/ PatchStore(c)
       \/ CreateSaleTransaction(c)
       \/ CreateCommissionTransaction(c)
       \/ CreateServiceFeeTransaction(c)
       \/ RequestFails(c)

CheckoutSpec == CheckoutInit /\ [][CheckoutNext]_vars

(***************************************************************************)
(* Fan-out to three subscriptions whose endpoints behave in a fixed way:   *)
(* A always answers 200, B answers 500 to the first two POSTs of a         *)
(* delivery and 200 to the third, C never answers (fetch rejects).         *)
(***************************************************************************)
UrlA == "https://a.example/hook"
UrlB == "https://b.example/hook"
UrlC == "https://c.example/hook"

FanoutEvents == {"payment.success", "payment.failed"}

HookA == [url |-> UrlA, events |-> FanoutEvents, retryAttempts |-> 3]

\* B leaves retryAttempts out or uses the n8n preset's 5
HooksB ==
  { [url |-> UrlB, events |-> FanoutEvents],
    [url |-> UrlB, events |-> FanoutEvents, retryAttempts |-> 5] }

\* C with a retry count of 1, of 2, or left out
HooksC ==
  { [url |-> UrlC, events |-> FanoutEvents, retryAttempts |-> 1],
    [url |-> UrlC, events |-> FanoutEvents, retryAttempts |-> 2],
    [url |-> UrlC, events |-> FanoutEvents] }

\* the subscription lists of the scenario, with C and without it
FanoutWebhooks ==
  { <<HookA, b, c>> : b \in HooksB, c \in HooksC }
  \cup { <<HookA, b>> : b \in HooksB }

\* the answer of the endpoint at url to the post-th POST of one delivery
EndpointScript(url, post) ==
  CASE url = UrlA -> 200
    [] url = UrlB -> IF post <= 2 THEN 500 ELSE 200
    [] OTHER -> 0

FanoutInit ==
  /\ InitExceptWebhooks
  /\ automationWebhooks \in FanoutWebhooks

\* the endpoint of delivery i answers as its script says
ScriptedDeliveryResponds(i) ==
  /\ i \in DOMAIN deliveries
  /\ DeliveryAnswered(i, EndpointScript(deliveries[i].url, deliveries[i].posts))

FanoutNext ==
  \/ ReceiveWebhook
  \/ OrderUpdateResponds
  \/ \E i \in 1..Len(automationWebhooks) : ScriptedDeliveryResponds(i)
  \/ \E i \in 1..Len(automationWebhooks) : BackoffElapses(i)
  \/ AllSettled
  \/ ProcessPaymentSplits

FanoutSpec == FanoutInit /\ [][FanoutNext]_vars

(***************************************************************************)
(* Subscriptions added and removed while requests are handled.             *)
(***************************************************************************)
\* the longest subscription list considered
MaxSubscriptions == 3

HookFirst == [url |-> UrlA, events |-> FanoutEvents, retryAttempts |-> 1]
HookSecond == [url |-> UrlB, events |-> {"payment.success"}, retryAttempts |-> 2]

\* the subscription a caller may add: one more for the url of HookFirst
AddableWebhooks ==
  { [url |-> UrlA, events |-> {"payment.failed"}, retryAttempts |-> 1] }

SubscriptionUrls == {UrlA, UrlB}

SubscriptionInit ==
  /\ InitExceptWebhooks
  /\ automationWebhooks = <<HookFirst, HookSecond>>

\* addAutomationWebhook(webhook): this.automationWebhooks.push(webhook)
AddAutomationWebhook(webhook) ==
  /\ Len(automationWebhooks) < MaxSubscriptions
  /\ automationWebhooks' = Append(automationWebhooks, webhook)
  /\ UNCHANGED <<ledgerVars, callVars, calc, n8n, requestVars>>

RemoveAutomationWebhook_CancelsDeliveries(url) ==
  /\ automationWebhooks' = SelectSeq(automationWebhooks, LAMBDA w : w.url # url)
  /\ deliveries' = SelectSeq(deliveries, LAMBDA d : d.url # url)
  /\ UNCHANGED <<ledgerVars, callVars, calc, n8n, wpc, req, handler, result, steps,
                 received, ordersBefore>>

RemoveAutomationWebhook_FirstMatchOnly(url) ==
  /\ automationWebhooks' =
       IF \E i \in DOMAIN automationWebhooks : automationWebhooks[i].url = url
       THEN LET first == CHOOSE i \in DOMAIN automationWebhooks :
                           /\ automationWebhooks[i].url = url
                           /\ \A j \in 1..(i - 1) : automationWebhooks[j].url # url
            IN SubSeq(automationWebhooks, 1, first - 1)
                 \o SubSeq(automationWebhooks, first + 1, Len(automationWebhooks))
       ELSE automationWebhooks
  /\ UNCHANGED <<ledgerVars, callVars, calc, n8n, requestVars>>

\* removeAutomationWebhook(url): the list is replaced by
\* this.automationWebhooks.filter(webhook => webhook.url !== url)
RemoveAutomationWebhook(url) ==
  /\ automationWebhooks' = SelectSeq(automationWebhooks, LAMBDA w : w.url # url)
  /\ UNCHANGED <<ledgerVars, callVars, calc, n8n, requestVars>>

SubscriptionNext ==
  \/ ReceiveWebhook
  \/ OrderUpdateResponds
  \/ \E i \in 1..MaxSubscriptions : DeliveryResponds(i)
  \/ \E i \in 1..MaxSubscriptions : BackoffElapses(i)
  \/ AllSettled
  \/ ProcessPaymentSplits
  \/ \E webhook \in AddableWebhooks : AddAutomationWebhook(webhook)
  \/ \E url \in SubscriptionUrls : RemoveAutomationWebhook(url)

SubscriptionSpec == SubscriptionInit /\ [][SubscriptionNext]_vars

(***************************************************************************)
(* DMShopN8nManager: workflows are registered, then one event is broadcast *)
(* to all of them.                                                         *)
(***************************************************************************)
\* dmShopN8nWorkflows: the presets of three of the workflows, each with a
\* webhook id of the caller
WorkflowPresets ==
  [payment |-> [webhookId |-> "dm-shop-payments", retryAttempts |-> 3],
   order |-> [webhookId |-> "dm-shop-orders", retryAttempts |-> 5],
   analytics |-> [webhookId |-> "dm-shop-analytics", retryAttempts |-> 1]]

WorkflowNames == DOMAIN WorkflowPresets

\* the events passed to broadcastEvent: event is any string
BroadcastEvents ==
  {"payment.success", "order.created", "seller.payout", "customer.welcome",
   "payout.success"}

\* the branch of broadcastEvent the event takes: the trigger method of the
\* first prefix test that holds, "none" when no test holds
TriggerMethod(event) ==
  CASE event \in {"payment.success", "payment.failed", "payment.pending"} ->
         "triggerPaymentWorkflow"
    [] event \in {"order.created", "order.paid"} -> "triggerOrderWorkflow"
    [] event \in {"seller.payout", "seller.commission"} -> "triggerSellerWorkflow"
    [] event \in {"customer.welcome", "customer.support"} ->
         "triggerCustomerWorkflow"
    [] OTHER -> "none"

\* what a trigger method returns once its one fetch is answered:
\* triggerPaymentWorkflow throws on !response.ok and returns false from its
\* catch, the others return response.ok, and all return false when fetch
\* rejects
TriggerReturns(method, status) == ResponseOk(status)

\* a function with one more entry, or one entry replaced
Set(map, key, value) ==
  [k \in DOMAIN map \cup {key} |-> IF k = key THEN value ELSE map[k]]

\* registerWorkflow(name, config): this.workflows.set(name, new client)
RegisterWorkflow(name) ==
  /\ n8n.phase = "idle"
  /\ name \notin DOMAIN n8n.workflows
  /\ n8n' = [n8n EXCEPT !.workflows = Set(@, name, WorkflowPresets[name])]
  /\ UNCHANGED <<ledgerVars, callVars, webhookVars, calc>>

\* broadcastEvent(event, data) up to await Promise.allSettled: every callback
\* of the map runs to its first await, which is the fetch of the trigger
\* method; when no prefix test holds the callback has no await and stores
\* false at once
BroadcastEvent(event) ==
  /\ n8n.phase = "idle"
  /\ n8n.workflows # <<>>
  /\ LET names == DOMAIN n8n.workflows
         called == TriggerMethod(event) # "none"
     IN n8n' = [n8n EXCEPT
                  !.phase = "awaiting",
                  !.event = event,
                  !.calls = [name \in names |-> IF called THEN 1 ELSE 0],
                  !.answered = [name \in names |-> ~called],
                  !.results = IF called THEN <<>>
                              ELSE [name \in names |-> FALSE]]
  /\ UNCHANGED <<ledgerVars, callVars, webhookVars, calc>>

\* the fetch of one workflow is answered or rejects: the trigger method
\* returns and the callback stores results[name]; nothing is retried
WorkflowResponds(name) ==
  /\ n8n.phase = "awaiting"
  /\ name \in DOMAIN n8n.workflows
  /\ ~n8n.answered[name]
  /\ \E status \in ResponseStatuses :
       n8n' = [n8n EXCEPT
                 !.answered[name] = TRUE,
                 !.results = Set(@, name,
                                 TriggerReturns(TriggerMethod(n8n.event), status))]
  /\ UNCHANGED <<ledgerVars, callVars, webhookVars, calc>>

\* Promise.allSettled resolves and broadcastEvent returns results
BroadcastReturns ==
  /\ n8n.phase = "awaiting"
  /\ \A name \in DOMAIN n8n.workflows : n8n.answered[name]
  /\ n8n' = [n8n EXCEPT !.phase = "returned"]
  /\ UNCHANGED <<ledgerVars, callVars, webhookVars, calc>>

BroadcastNext ==
  \/ \E name \in WorkflowNames : RegisterWorkflow(name)
  \/ \E event \in BroadcastEvents : BroadcastEvent(event)
  \/ \E name \in WorkflowNames : WorkflowResponds(name)
  \/ BroadcastReturns

BroadcastSpec == Init /\ [][BroadcastNext]_vars

(***************************************************************************)
(* What one complete application of a payment amounts to.                  *)
(***************************************************************************)
RECURSIVE SumSplits(_, _)
\* the sum of the split amounts of a payment that go to store s
SumSplits(splits, s) ==
  IF splits = <<>> THEN 0
  ELSE (IF Head(splits).storeId = s THEN Head(splits).amount ELSE 0)
       + SumSplits(Tail(splits), s)

\* the transaction rows one application of the input inserts
RowsOf(in) ==
  LET op == in.orderPayment
      ref == in.paystackEvent.data.reference
  IN { TransactionRow(op.orderId, op.paymentSplits[i].storeId, "sale",
                      op.paymentSplits[i].amount, ref) :
         i \in 1..Len(op.paymentSplits) }
     \cup
     { TransactionRow(op.orderId, op.paymentSplits[i].storeId, "commission",
                      op.paymentSplits[i].commission, ref) :
         i \in 1..Len(op.paymentSplits) }
     \cup
     { TransactionRow(op.orderId, NULL, "service_fee", op.totalServiceFee, ref) }

\* every store holds its initial balances plus the credits of the inputs in ins
\* (a set of distinct inputs, each counted once)
RECURSIVE CreditOf(_, _)
CreditOf(ins, s) ==
  IF ins = {} THEN 0
  ELSE LET in == CHOOSE x \in ins : TRUE
       IN SumSplits(in.orderPayment.paymentSplits, s) + CreditOf(ins \ {in}, s)

StoresCreditedOnce(ins) ==
  \A s \in StoreIds :
    /\ stores[s].total_earnings = InitialStores[s].total_earnings + CreditOf(ins, s)
    /\ stores[s].available_balance =
         InitialStores[s].available_balance + CreditOf(ins, s)

RowsRecordedOnce(ins) ==
  /\ \A in \in ins : \A row \in RowsOf(in) : Copies(transactions, row) = 1
  /\ \A row \in DOMAIN transactions :
       \/ row \in DOMAIN InitialTransactions
       \/ \E in \in ins : row \in RowsOf(in)

\* the ledger is as it was before any call
LedgerUntouched ==
  /\ orders = [o \in OrderIds |-> NewOrder]
  /\ stores = InitialStores
  /\ transactions = InitialTransactions

\* the ledger holds exactly one complete application of the input
LedgerAppliedOnce(in) ==
  /\ orders[in.orderPayment.orderId].payment_status = "paid"
  /\ StoresCreditedOnce({in})
  /\ RowsRecordedOnce({in})

OthersIdle(c) == \A d \in Calls \ {c} : pc[d] = "idle"
Quiescent == \A c \in Calls : ~Running(c)

(***************************************************************************)
(* Claims about the ledger (LedgerSpec).                                   *)
(***************************************************************************)

\* C1: processOrderPayment called twice, one call after the other, with the
\* same orderPayment and the same Paystack reference credits every store once
\* and records every transaction row once: the second call is a no-op.
C1_SecondApplicationIsNoOp ==
  \A c, d \in Calls :
    ( /\ c < d
      /\ pc[c] = "done" /\ pc[d] = "done"
      /\ \A e \in Calls \ {c, d} : pc[e] = "idle"
      /\ ~overlapped[c] /\ ~overlapped[d]
      /\ arg[c] = arg[d] )
    => LedgerAppliedOnce(arg[c])

\* C2: two deliveries of the same charge.success event processed concurrently,
\* their persistence steps interleaved, leave exactly one ledger application.
C2_ConcurrentDuplicatesApplyOnce ==
  \A c, d \in Calls :
    ( /\ c < d
      /\ pc[c] = "done" /\ pc[d] = "done"
      /\ \A e \in Calls \ {c, d} : pc[e] = "idle"
      /\ overlapped[c] /\ overlapped[d]
      /\ arg[c] = arg[d] )
    => LedgerAppliedOnce(arg[c])

\* C3: a processOrderPayment that failed part-way leaves the ledger exactly as
\* it was before the call: no partial commit remains.
C3_FailureLeavesNoPartialCommit ==
  \A c \in Calls :
    (pc[c] = "failed" /\ OthersIdle(c)) => LedgerUntouched

\* C4: while a payment with two or more seller splits is being applied, a
\* reader sees either nothing of it or all of it.
C4_ApplicationIsAtomic ==
  \A c \in Calls :
    ( /\ pc[c] \notin {"idle", "failed"}
      /\ OthersIdle(c)
      /\ Len(Splits(c)) >= 2 )
    => (LedgerUntouched \/ LedgerAppliedOnce(arg[c]))

\* C5: concurrent updateStoreEarnings calls for the same store (two payments of
\* different orders that share a seller) lose no update: the store ends with
\* its initial balances plus both deltas.
C5_NoLostStoreUpdate ==
  \A c, d \in Calls :
    ( /\ c < d
      /\ pc[c] = "done" /\ pc[d] = "done"
      /\ \A e \in Calls \ {c, d} : pc[e] = "idle"
      /\ arg[c] # arg[d] )
    => StoresCreditedOnce({arg[c], arg[d]})

\* the balances the transaction log of store s replays to
RECURSIVE Replay(_, _, _)
Replay(rows, s, types) ==
  IF rows = {} THEN 0
  ELSE LET r == CHOOSE x \in rows : TRUE
       IN (IF r.store_id = s /\ r.type \in types
           THEN transactions[r] * r.amount ELSE 0)
          + Replay(rows \ {r}, s, types)

Reconciled ==
  \A s \in StoreIds :
    /\ stores[s].total_earnings = Replay(DOMAIN transactions, s, {"sale"})
    /\ stores[s].available_balance =
         Replay(DOMAIN transactions, s, {"sale"})
         - Replay(DOMAIN transactions, s, {"payout", "refund"})

\* C6: whenever no ledger operation is in progress, every store's balances are
\* the ones its transaction records replay to.
C6_BalancesReplayFromTransactions == Quiescent => Reconciled

\* C6, second half: transaction records are only ever appended.
TransactionsAppendOnly ==
  [][\A row \in DOMAIN transactions :
       row \in DOMAIN transactions' /\ transactions'[row] >= transactions[row]]_vars

(***************************************************************************)
(* Claims about webhook intake (WebhookSpec).                              *)
(***************************************************************************)
SignatureValid == validateWebhook(req.payload, req.signature)

\* the current request has written nothing and delivered nothing
NoEffect ==
  /\ orders = ordersBefore
  /\ stores = InitialStores
  /\ transactions = InitialTransactions
  /\ deliveries = <<>>
  /\ steps = {}

\* C7: a request whose signature validateWebhook rejects is answered with a
\* failure result and performs no order update, balance change, transaction
\* insert or automation delivery, whatever its payload.
C7_InvalidSignatureHasNoEffect ==
  (wpc # "idle" /\ ~SignatureValid) =>
    /\ wpc = "returned"
    /\ result.success = FALSE
    /\ NoEffect

\* a charge.success body under the signature of the body it was changed from
C7_TamperedChargeRejected ==
  /\ wpc = "returned"
  /\ req.payload = "charge.success ref1 split"
  /\ req.signature = Hmac(WebhookSecret, SignedBody)
  /\ ~SignatureValid

\* C8: for a charge.success event no payment.success delivery is attempted
\* before every ledger step of the event (the order status update and the
\* processing of the payment splits) has completed.
C8_LedgerCompleteBeforeDispatch ==
  (wpc # "idle" /\ handler = "handleSuccessfulPayment" /\ deliveries # <<>>) =>
    /\ "orderUpdated" \in steps
    /\ (EventOf.data.metadata.split_code # "" => "splitsProcessed" \in steps)

\* C8, the part that holds: no delivery before the order update succeeded,
\* and none at all when it failed.
DispatchOnlyAfterOrderUpdate ==
  (wpc # "idle" /\ handler \in {"handleSuccessfulPayment", "handleFailedPayment"}
     /\ deliveries # <<>>)
    => "orderUpdated" \in steps

\* C9: once the signature is valid and the order update has succeeded, the
\* request returns success=true whatever became of the deliveries, and the
\* order keeps the status written before dispatch.
C9_SuccessWhateverDeliveriesDo ==
  (wpc # "idle" /\ SignatureValid /\ "orderUpdated" \in steps) =>
    /\ orders[EventOf.data.metadata.order_id].payment_status
         = StatusWritten(handler)
    /\ orders = PatchOrders(ordersBefore, DOMAIN ordersBefore,
                            OrderStatusUpdates(handler, EventOf,
                                               Timestamp(received)))
    /\ (wpc = "returned" => result.success = TRUE)

\* the request returned after every matching endpoint exhausted its retries
C9_ReturnedAfterAllExhausted ==
  /\ wpc = "returned"
  /\ "orderUpdated" \in steps
  /\ Len(deliveries) = 2
  /\ \A i \in DOMAIN deliveries : deliveries[i].state = "exhausted"
  /\ result.success = TRUE

HandledEventTypes ==
  {"charge.success", "charge.failed", "transfer.success", "transfer.failed"}

\* C10: a correctly signed payload with an event type the switch does not
\* know is answered with success=true and has no effect at all.
C10_UnknownEventAcknowledged ==
  ( /\ wpc # "idle"
    /\ SignatureValid
    /\ IsJson(req.payload)
    /\ EventOf.event \notin HandledEventTypes )
  => /\ wpc = "returned"
     /\ result.success = TRUE
     /\ NoEffect

C10_UnknownEventReturned ==
  /\ wpc = "returned"
  /\ SignatureValid
  /\ EventOf.event = "subscription.create"
  /\ result = UnhandledResult("subscription.create")

(***************************************************************************)
(* Claims about the order state machine (WebhookSpec).                     *)
(***************************************************************************)
\* the order the current event is about
EventOrder == EventOf.data.metadata.order_id

\* C11: a charge.failed event for an order whose payment_status is pending
\* sets that order's payment_status to failed, appends no transaction record
\* and changes no store's total_earnings or available_balance.
C11_FailedChargeFailsPendingOrder ==
  ( /\ wpc = "returned"
    /\ handler = "handleFailedPayment"
    /\ result.success
    /\ ordersBefore[EventOrder].payment_status = "pending" )
  => /\ orders[EventOrder].payment_status = "failed"
     /\ transactions = InitialTransactions
     /\ stores = InitialStores

C11_PendingOrderFailed ==
  /\ wpc = "returned"
  /\ handler = "handleFailedPayment"
  /\ result.success
  /\ ordersBefore[EventOrder].payment_status = "pending"
  /\ orders[EventOrder].payment_status = "failed"

\* C12: a payment failure applied to an order that is already failed is a
\* no-op: nothing is written to the order.
C12_RepeatedFailureWritesNothing ==
  ( /\ wpc # "idle"
    /\ handler = "handleFailedPayment"
    /\ ordersBefore[EventOrder].payment_status = "failed" )
  => /\ "orderUpdated" \notin steps
     /\ orders[EventOrder] = ordersBefore[EventOrder]

\* the edges of the payment state machine
AllowedStatusEdges ==
  { <<"pending", "paid">>, <<"pending", "failed">>, <<"paid", "refunded">> }

\* C13: over any sequence of webhook events an order's payment_status changes
\* only along pending->paid, pending->failed and paid->refunded.
C13_StatusFollowsStateMachine ==
  [][\A o \in OrderIds :
       orders'[o].payment_status # orders[o].payment_status
         => <<orders[o].payment_status, orders'[o].payment_status>>
              \in AllowedStatusEdges]_vars

\* the payout rows recorded for the current event
PayoutRows ==
  { row \in DOMAIN transactions :
      row.type = "payout" /\ row.paystack_reference = EventOf.data.reference }

\* C14: a transfer.success event records a payout transaction and lowers the
\* store's available_balance by the payout amount; a transfer.failed event
\* changes no balance but is still recorded in the ledger.
C14_TransferOutcomeRecorded ==
  ( /\ wpc = "returned"
    /\ result.success
    /\ handler \in {"handleSuccessfulTransfer", "handleFailedTransfer"} )
  => /\ PayoutRows # {}
     /\ IF handler = "handleSuccessfulTransfer"
        THEN \E s \in StoreIds :
               stores[s].available_balance
                 = InitialStores[s].available_balance - EventOf.data.amount
        ELSE stores = InitialStores

(***************************************************************************)
(* Claims about the automation dispatcher.                                 *)
(***************************************************************************)

\* the number of attempts a subscription asks for: its retryAttempts, or the
\* default when it leaves the field out
ConfiguredAttempts(webhook) ==
  IF "retryAttempts" \in DOMAIN webhook THEN webhook.retryAttempts
  ELSE DefaultRetryAttempts

\* C15: with subscriptions A (always succeeds), B (fails twice, then succeeds)
\* and C (always fails) on one event, once the dispatch is over A is delivered
\* after one attempt, B after three, C is exhausted after exactly its retry
\* count, and A and B fare the same whether or not C is subscribed.
C15_FanoutIsolated ==
  (wpc \in {"processPaymentSplits", "returned"} /\ deliveries # <<>>)
  => /\ Len(deliveries) = Len(automationWebhooks)
     /\ \A i \in DOMAIN deliveries :
          LET d == deliveries[i]
          IN CASE d.url = UrlA -> d.state = "delivered" /\ d.posts = 1
               [] d.url = UrlB -> d.state = "delivered" /\ d.posts = 3
               [] OTHER -> /\ d.state = "exhausted"
                           /\ d.posts = ConfiguredAttempts(d.webhook)

\* a dispatch to A, B and C is over, C configured with two attempts
C15_ThreeWayFanoutOver ==
  /\ wpc = "returned"
  /\ Len(deliveries) = 3
  /\ deliveries[1].state = "delivered" /\ deliveries[1].posts = 1
  /\ deliveries[2].state = "delivered" /\ deliveries[2].posts = 3
  /\ deliveries[3].state = "exhausted" /\ deliveries[3].posts = 2

\* C16: sendAutomationWebhook makes at most retryAttempts attempts (3 when the
\* subscription does not configure it) and exactly that many when the endpoint
\* always fails, for every configured value of retryAttempts.
C16_AttemptsBoundedByRetryAttempts ==
  \A i \in DOMAIN deliveries :
    LET d == deliveries[i]
    IN /\ d.posts <= ConfiguredAttempts(d.webhook)
       /\ d.state = "exhausted" => d.posts = ConfiguredAttempts(d.webhook)
       /\ d.state = "delivered" => d.posts = d.attempt + 1

\* C17: a delivery succeeds only on a 2xx answer; any other status and a
\* transport error both count as a failed attempt, followed by a retry while
\* attempts remain.
C17_OnlySuccessStatusDelivers ==
  \A i \in DOMAIN deliveries :
    LET d == deliveries[i]
        answered == d.lastStatus # NoStatus
        success == d.lastStatus >= 200 /\ d.lastStatus <= 299
    IN /\ d.state = "delivered" <=> (answered /\ success)
       /\ (answered /\ ~success)
            => /\ d.attempt >= 1
               /\ d.attempt < d.maxRetries => d.state \in {"backoff", "posting"}
               /\ d.state = "posting" => d.posts = d.attempt + 1

\* a delivery went through on its second POST, after a failed first one
C17_DeliveredOnRetry ==
  \E i \in DOMAIN deliveries :
    /\ deliveries[i].state = "delivered"
    /\ deliveries[i].attempt = 1
    /\ deliveries[i].lastStatus = 204

\* C18: the delay before retry k+1 starts at 1 s and doubles (1 s, 2 s, 4 s),
\* and there is no delay after the last allowed attempt.
C18_BackoffStartsAtOneSecond ==
  \A i \in DOMAIN deliveries :
    LET d == deliveries[i]
    IN /\ d.state = "backoff" => d.delay = (2 ^ (d.attempt - 1)) * 1000
       /\ d.attempt >= d.maxRetries => d.state # "backoff"

\* every delivery of the dispatch has made its first POST
AllStarted == \A i \in DOMAIN deliveries : deliveries[i].posts >= 1

\* C19: an exhausted delivery raises nothing: its sendAutomationWebhook
\* resolves, the other deliveries were started all the same, and the request
\* goes on to return success.
C19_ExhaustionNeverRaises ==
  /\ \A i \in DOMAIN deliveries :
       deliveries[i].state \in {"posting", "backoff", "delivered", "exhausted"}
  /\ (\E i \in DOMAIN deliveries : deliveries[i].state = "exhausted")
       => /\ AllStarted
          /\ wpc \in {"dispatching", "processPaymentSplits", "returned"}
          /\ wpc = "returned"
               => (result.success /\ result.automationTriggered)

\* the request returned although one endpoint exhausted its retries, the other
\* delivery having gone through
C19_ReturnedBesideExhausted ==
  /\ wpc = "returned"
  /\ result.success
  /\ \E i, j \in DOMAIN deliveries :
       /\ deliveries[i].state = "exhausted"
       /\ deliveries[j].state = "delivered"

\* C20: triggerAutomation starts every matching delivery before it waits on
\* any, and returns only when every one of them has finished.
C20_AllStartedThenAllAwaited ==
  /\ wpc = "dispatching"
       => /\ Len(deliveries)
               = Len(RelevantWebhooks(automationWebhooks,
                                      AutomationEvent(handler)))
          /\ AllStarted
  /\ wpc \in {"processPaymentSplits", "returned"}
       => \A i \in DOMAIN deliveries :
            deliveries[i].state \in {"delivered", "exhausted"}

\* the request returned after a dispatch in which the first delivery went
\* through at once and the second needed a retry
C20_ReturnedAfterSlowDelivery ==
  /\ wpc = "returned"
  /\ Len(deliveries) = 2
  /\ deliveries[1].state = "delivered" /\ deliveries[1].attempt = 0
  /\ deliveries[2].state = "delivered" /\ deliveries[2].attempt >= 1

\* C21: every dispatch terminates: no delivery makes more attempts than its
\* maxRetries, and every request that was received eventually returns a
\* result, provided every network call returns or fails.
C21_EveryRequestReturns ==
  /\ [](\A i \in DOMAIN deliveries :
          /\ deliveries[i].attempt <= deliveries[i].maxRetries
          /\ deliveries[i].posts <= deliveries[i].maxRetries)
  /\ (wpc \notin {"idle", "returned"}) ~> (wpc = "returned")

\* the request returned after a delivery had used up all three attempts
C21_ReturnedAfterLastAttempt ==
  /\ wpc = "returned"
  /\ \E i \in DOMAIN deliveries :
       /\ deliveries[i].posts = DefaultRetryAttempts
       /\ deliveries[i].attempt = DefaultRetryAttempts
       /\ deliveries[i].lastStatus = 500

(***************************************************************************)
(* Claims about the intake.                                                *)
(***************************************************************************)

\* C22: a correctly signed payload that is not JSON is answered with a
\* failure that differs from the bad-signature answer, and nothing is written
\* or delivered.
C22_MalformedJsonRejected ==
  ( /\ wpc = "returned"
    /\ validateWebhook(req.payload, req.signature)
    /\ req.payload \in MalformedBodies )
  => /\ result.success = FALSE
     /\ result # InvalidSignatureResult
     /\ result.message # InvalidSignatureResult.message
     /\ orders = ordersBefore
     /\ stores = InitialStores
     /\ transactions = InitialTransactions
     /\ deliveries = <<>>
     /\ steps = {}

\* a signed body that does not parse was answered
C22_SignedMalformedAnswered ==
  /\ wpc = "returned"
  /\ validateWebhook(req.payload, req.signature)
  /\ req.payload \in MalformedBodies
  /\ result = ThrownResult("Unexpected token")

(***************************************************************************)
(* Claims about the payment calculator (CalculatorSpec).                   *)
(***************************************************************************)
PaymentReturned == calc.call = "calculatePayment" /\ calc.returned
OrderPaymentReturned == calc.call = "calculateOrderPayment" /\ calc.returned

RECURSIVE SumSeq(_)
\* the sum of a sequence of amounts
SumSeq(amounts) ==
  IF amounts = <<>> THEN 0 ELSE Head(amounts) + SumSeq(Tail(amounts))

\* the lines of one seller, in order
LinesOf(items, seller) == SelectSeq(items, LAMBDA item : item.sellerId = seller)

\* price * quantity of every line
LineTotals(items) == [i \in DOMAIN items |-> items[i].price * items[i].quantity]

C24_LineTotalHoldsNoServiceFee ==
  PaymentReturned
  => calc.result.customerTotal - calc.result.commission = calc.productPrice

C26_ServiceFeeOncePerOrder ==
  OrderPaymentReturned => calc.result.totals.totalServiceFee = 15 * Rand

\* C27: the totals of calculateOrderPayment satisfy grandTotal = subtotal +
\* totalCommission + totalServiceFee + shippingFee, subtotal being the sum of
\* price * quantity over the lines.
C27_GrandTotalIsSumOfParts ==
  OrderPaymentReturned
  => LET totals == calc.result.totals
     IN /\ totals.subtotal = SumSeq(LineTotals(calc.items))
        /\ totals.shippingFee = calc.shippingFee
        /\ totals.grandTotal = totals.subtotal + totals.totalCommission
                                 + totals.totalServiceFee + totals.shippingFee

\* an order of two lines with shipping was totalled
C27_TwoLinesWithShippingTotalled ==
  /\ OrderPaymentReturned
  /\ Len(calc.items) = 2
  /\ calc.shippingFee = DefaultShippingFee
  /\ calc.result.totals.grandTotal > calc.result.totals.subtotal + DefaultShippingFee

\* C28: for the scenario order with shipping R85 calculateOrderPayment yields
\* commissions R7 and R8, totalCommission R15, totalServiceFee R15, subtotal
\* R300, grandTotal R415 and the splits seller1 R100, seller2 R200.
C28_ScenarioTotals ==
  ( /\ OrderPaymentReturned
    /\ calc.items = ScenarioItems
    /\ calc.shippingFee = 85 * Rand )
  => LET totals == calc.result.totals
         splits == calc.result.paymentSplits
     IN /\ Len(splits) = 2
        /\ splits[1].sellerId = "seller1" /\ splits[1].commission = 7 * Rand
        /\ splits[2].sellerId = "seller2" /\ splits[2].commission = 8 * Rand
        /\ splits[1].amount = 100 * Rand /\ splits[2].amount = 200 * Rand
        /\ totals.totalCommission = 15 * Rand
        /\ totals.totalServiceFee = 15 * Rand
        /\ totals.subtotal = 300 * Rand
        /\ totals.grandTotal = 415 * Rand

\* the commissions calculateOrderPayment reports for the lines of one seller
CommissionsOf(processedItems, seller) ==
  LET lines == LinesOf(processedItems, seller)
  IN [i \in DOMAIN lines |-> lines[i].commission]

SellerSubtotal(items, seller) == SumSeq(LineTotals(LinesOf(items, seller)))

\* the sum of netSellerAmount over a seller's lines
SellerNetAmount(items, seller) ==
  LET lines == LinesOf(items, seller)
  IN SumSeq([i \in DOMAIN lines |->
               calculatePayment(lines[i].price * lines[i].quantity,
                                lines[i].sellerTier).netSellerAmount])

\* the sale rows of the checkout's payment recorded for a store
SaleRows(store) ==
  { row \in DOMAIN transactions :
      /\ row.type = "sale"
      /\ row.store_id = store
      /\ row.paystack_reference = CheckoutReference }

\* C30: for an order produced by calculateOrderPayment, the amount
\* processOrderPayment records in a store's sale transaction and credits to
\* the store is the subtotal of the seller's lines, never the amount net of
\* the estimated Paystack fee.
C30_EstimatedFeeStaysOutOfLedger ==
  /\ \A seller \in SellerIds :
       \A row \in SaleRows(StoreOfSeller(seller)) :
         /\ row.amount = SellerSubtotal(calc.items, seller)
         /\ row.amount # SellerNetAmount(calc.items, seller)
  /\ \A c \in Calls :
       (pc[c] = "done" /\ OthersIdle(c))
       => \A seller \in SellerIds :
            LET store == StoreOfSeller(seller)
                credit == SellerSubtotal(calc.items, seller)
            IN /\ stores[store].total_earnings
                    = InitialStores[store].total_earnings + credit
               /\ stores[store].available_balance
                    = InitialStores[store].available_balance + credit
               /\ credit > 0 => SaleRows(store) # {}

\* the scenario order was applied: R100 credited to seller1's store
C30_CalculatedOrderApplied ==
  /\ calc.returned
  /\ calc.items = ScenarioItems
  /\ pc[1] = "done"
  /\ OthersIdle(1)
  /\ stores["s1"].total_earnings = 100 * Rand
  /\ SaleRows("s1") # {}

(***************************************************************************)
(* Further claims about the ledger and the webhook handler.                *)
(***************************************************************************)
\* the rows recorded under a Paystack reference
RowsWithReference(ref) ==
  { row \in DOMAIN transactions : row.paystack_reference = ref }

RECURSIVE CopiesIn(_)
\* the number of records a set of rows stands for in the transactions table
CopiesIn(rows) ==
  IF rows = {} THEN 0
  ELSE LET row == CHOOSE r \in rows : TRUE
       IN transactions[row] + CopiesIn(rows \ {row})

\* C31: a successful processOrderPayment on an order with n splits sets the
\* order to paid, raises total_earnings and available_balance of each split's
\* store by exactly the split's amount, and appends exactly 2n+1 transaction
\* records (a sale and a commission per split, one service_fee without store),
\* all under the event's Paystack reference.
C31_SuccessfulPaymentRecorded ==
  \A c \in Calls :
    (pc[c] = "done" /\ OthersIdle(c))
    => LET splits == Splits(c)
           recorded == RowsWithReference(Ref(c))
       IN /\ orders[OrderOf(c)].payment_status = "paid"
          /\ \A i \in DOMAIN splits :
               LET store == splits[i].storeId
               IN /\ stores[store].total_earnings
                       = InitialStores[store].total_earnings + splits[i].amount
                  /\ stores[store].available_balance
                       = InitialStores[store].available_balance + splits[i].amount
                  /\ \E row \in recorded :
                       /\ row.type = "sale" /\ row.store_id = store
                       /\ row.amount = splits[i].amount
                  /\ \E row \in recorded :
                       /\ row.type = "commission" /\ row.store_id = store
                       /\ row.amount = splits[i].commission
          /\ \E row \in recorded :
               row.type = "service_fee" /\ row.store_id = NULL
          /\ CopiesIn(recorded) = 2 * Len(splits) + 1
          /\ DOMAIN transactions = DOMAIN InitialTransactions \cup recorded

\* the two-seller payment was applied by a call that ran alone
C31_TwoSplitsRecorded ==
  /\ pc[1] = "done"
  /\ OthersIdle(1)
  /\ Len(Splits(1)) = 2
  /\ CopiesIn(RowsWithReference(Ref(1))) = 5

\* the canonical automation event of a provider event type
CanonicalEvent(eventType) ==
  CASE eventType = "charge.success" -> "payment.success"
    [] eventType = "charge.failed" -> "payment.failed"
    [] eventType = "transfer.success" -> "payout.success"
    [] eventType = "transfer.failed" -> "payout.failed"
    [] OTHER -> "none"

\* the current request passed the signature check and parsed
Accepted ==
  /\ wpc # "idle"
  /\ validateWebhook(req.payload, req.signature)
  /\ IsJson(req.payload)

\* C34: each provider event type goes to exactly one handler and one
\* canonical automation event, and a subscription gets a delivery only if its
\* events list contains that canonical event.
C34_RoutingTable ==
  Accepted
  => /\ handler = CASE EventOf.event = "charge.success" -> "handleSuccessfulPayment"
                    [] EventOf.event = "charge.failed" -> "handleFailedPayment"
                    [] EventOf.event = "transfer.success" -> "handleSuccessfulTransfer"
                    [] EventOf.event = "transfer.failed" -> "handleFailedTransfer"
                    [] OTHER -> "unhandled"
     /\ \A i \in DOMAIN deliveries :
          CanonicalEvent(EventOf.event) \in deliveries[i].webhook.events

\* a transfer.failed event is being delivered to the one subscription of
\* payout.failed
C34_PayoutFailedDelivered ==
  /\ Accepted
  /\ EventOf.event = "transfer.failed"
  /\ Len(deliveries) = 1
  /\ "payout.failed" \in deliveries[1].webhook.events

\* C35: when the order update fails for charge.success or charge.failed the
\* request returns success=false and no automation delivery is attempted.
C35_FailedOrderUpdateSurfaced ==
  ( /\ wpc = "returned"
    /\ handler \in {"handleSuccessfulPayment", "handleFailedPayment"}
    /\ "orderUpdated" \notin steps )
  => /\ result.success = FALSE
     /\ deliveries = <<>>
     /\ orders = ordersBefore

\* a charge.success whose order update was refused has been answered
C35_RefusedUpdateAnswered ==
  /\ wpc = "returned"
  /\ handler = "handleSuccessfulPayment"
  /\ "orderUpdated" \notin steps
  /\ result.success = FALSE
  /\ result.message = "Webhook processing failed: Failed to update order"

\* C36: handling a charge event for an order changes that order only: every
\* other order is left as it was.
C36_OtherOrdersUntouched ==
  (wpc = "returned" /\ "orderUpdated" \in steps)
  => \A o \in OrderIds \ {EventOrder} : orders[o] = ordersBefore[o]

\* some subscription lists the canonical event of the current request
SomeSubscriptionMatches ==
  \E i \in DOMAIN automationWebhooks :
    CanonicalEvent(EventOf.event) \in automationWebhooks[i].events

\* C38: automationTriggered is true exactly when some subscription lists the
\* canonical event type, whatever became of the deliveries; with no matching
\* subscription it is false and nothing is delivered.
C38_TriggeredIffSubscribed ==
  ( /\ wpc = "returned"
    /\ Accepted
    /\ handler # "unhandled"
    /\ result.success )
  => /\ result.automationTriggered = SomeSubscriptionMatches
     /\ ~SomeSubscriptionMatches => deliveries = <<>>

\* automationTriggered is true although the only delivery was exhausted
C38_TriggeredThoughExhausted ==
  /\ wpc = "returned"
  /\ Accepted
  /\ EventOf.event = "transfer.failed"
  /\ result.automationTriggered
  /\ \A i \in DOMAIN deliveries : deliveries[i].state = "exhausted"

C40_CheckoutChargesCustomerTotal ==
  (calc.call = "createOrderCheckout" /\ calc.returned)
  => /\ calc.result.amount
          = ToString(zarToKobo(
              calculatePayment(calc.params.totalAmount,
                               calc.params.sellerTier).customerTotal))
     /\ calc.result.currency = "ZAR"

\* a checkout of R99.99 on the free tier was initialized with 12199 cents
C40_CheckoutWithCentsSent ==
  /\ calc.call = "createOrderCheckout"
  /\ calc.returned
  /\ calc.params.totalAmount = 9999 * (Rand \div 100)
  /\ calc.params.sellerTier = "free"
  /\ calc.result.amount = "12199"

(***************************************************************************)
(* Claims about the subscription list (SubscriptionSpec).                  *)
(***************************************************************************)
\* the subscriptions of the deliveries of a dispatch, in order
WebhooksOf(ds) == [i \in DOMAIN ds |-> ds[i].webhook]

\* the urls of a subscription list
UrlsOf(webhooks) == { webhooks[i].url : i \in DOMAIN webhooks }

\* C32: a dispatch works on the subscription list as it was when the
\* dispatch began: adding or removing a subscription while it runs changes
\* neither the set of subscriptions it delivers to nor their retries.
C32_DispatchUsesSnapshot ==
  [][ /\ (wpc # "dispatching" /\ wpc' = "dispatching")
        => WebhooksOf(deliveries')
             = RelevantWebhooks(automationWebhooks,
                                CanonicalEvent(JsonParse(req'.payload).event))
      /\ (wpc = "dispatching" /\ wpc' = "dispatching")
        => /\ WebhooksOf(deliveries') = WebhooksOf(deliveries)
           /\ \A i \in DOMAIN deliveries :
                deliveries'[i].maxRetries = deliveries[i].maxRetries
           /\ automationWebhooks' # automationWebhooks
                => deliveries' = deliveries ]_vars

\* a delivery retried and came through although its url is no longer
\* subscribed
C32_RemovedHookStillRetried ==
  /\ wpc = "dispatching"
  /\ \E i \in DOMAIN deliveries :
       /\ deliveries[i].url \notin UrlsOf(automationWebhooks)
       /\ deliveries[i].posts = 2
       /\ deliveries[i].state = "delivered"

RECURSIVE Without(_, _)
\* a subscription list without the subscriptions of a url, the others in
\* their order
Without(webhooks, url) ==
  IF webhooks = <<>> THEN <<>>
  ELSE IF Head(webhooks).url = url THEN Without(Tail(webhooks), url)
       ELSE <<Head(webhooks)>> \o Without(Tail(webhooks), url)

\* C37: the list changes only by a removal, which drops every subscription
\* of the url and keeps the others in their order, or by an addition, which
\* appends one subscription and keeps the others; a dispatch delivers only to
\* urls subscribed when it starts, so never to a url removed before.
C37_ListChangesOnlyByAddAndRemove ==
  [][ /\ automationWebhooks' # automationWebhooks
        => \/ \E url \in UrlsOf(automationWebhooks) :
                /\ url \notin UrlsOf(automationWebhooks')
                /\ automationWebhooks' = Without(automationWebhooks, url)
           \/ /\ Len(automationWebhooks') = Len(automationWebhooks) + 1
              /\ SubSeq(automationWebhooks', 1, Len(automationWebhooks))
                   = automationWebhooks
      /\ (wpc # "dispatching" /\ wpc' = "dispatching")
        => \A i \in DOMAIN deliveries' :
             deliveries'[i].url \in UrlsOf(automationWebhooks) ]_vars

\* url A was subscribed twice and removed; a later payment.success went to
\* the remaining subscription only
C37_DispatchAfterRemoval ==
  /\ wpc = "dispatching"
  /\ automationWebhooks = <<HookSecond>>
  /\ Len(deliveries) = 1
  /\ deliveries[1].url = UrlB

(***************************************************************************)
(* Claim about the n8n manager (BroadcastSpec).                            *)
(***************************************************************************)
\* C39: broadcastEvent returns one boolean entry per registered workflow, a
\* failing workflow does not keep the others from being triggered, and each
\* workflow is called exactly once per broadcast, whatever its retryAttempts.
C39_EachWorkflowCalledOnce ==
  n8n.phase = "returned"
  => /\ DOMAIN n8n.results = DOMAIN n8n.workflows
     /\ \A name \in DOMAIN n8n.workflows :
          /\ n8n.results[name] \in BOOLEAN
          /\ n8n.calls[name] = 1

====
